---- MODULE Spec2Model ----
(***************************************************************************)
(* Model of the autotown server: the reliable ingest of tune results       *)
(* (web.go: handleStoreTune, handleAsyncStoreTune) and the rollup of usage  *)
(* reports into FoundController records (admin.go: asyncRollup).           *)
(***************************************************************************)
EXTENDS Integers, Sequences, FiniteSets, TLC

\* ------------------------------------------------------------------------
\* Bounds
\* ------------------------------------------------------------------------
MaxSubs == 3          \* submissions handled by handleStoreTune in one run
MaxDeliveries == 2    \* deliveries of 'asyncstore' tasks in one run

\* ------------------------------------------------------------------------
\* State
\* ------------------------------------------------------------------------
VARIABLES
    now,          \* wall clock read by time.Now(): it advances with each request
    tuneStore,    \* kind "TuneResults": sequence of entities, key = index
    asyncstore,   \* tasks pending on the 'asyncstore' queue
    calls,        \* one entry per handleStoreTune request: what it answered
    putFailed,    \* whether a datastore.Put on TuneResults has failed so far
    fcStore,      \* kind "FoundController": function from existing key to entity
    last,         \* the latest asyncRollup call: its report and its outcome
    uc,           \* the handleUpdateControllers request: its position and locals
    batches,      \* the goroutines started with grp.Go: their tasks and state
    rollupQ,      \* records whose task is on the 'asyncRollup' queue
    rw,           \* the handleRewriteUUIDs requests made so far
    procs         \* concurrent asyncRollup calls: their position and locals

ingestVars == <<now, tuneStore, asyncstore, calls, putFailed>>
rollupVars == <<fcStore, last>>
dispatchVars == <<uc, batches, rollupQ>>
rewriteVars == <<rw>>
concVars == <<procs>>

\* ------------------------------------------------------------------------
\* Ingest: inputs
\* ------------------------------------------------------------------------
\* Request bodies: a well-formed document and one that is not JSON.
Docs ==
    { [wellFormed |-> TRUE, uniqueId |-> "dev1", board |-> "Sparky2", tau |-> 12],
      [wellFormed |-> FALSE, uniqueId |-> "", board |-> "", tau |-> 0] }

\* Request origins: remote address and the X-AppEngine-* headers.
\* latlong is the X-Appengine-Citylatlong header: <<>> when absent.
Origins ==
    { [RemoteAddr |-> "198.51.100.7", Country |-> "US", Region |-> "ca",
       City |-> "oakland", latlong |-> <<37, -122>>],
      [RemoteAddr |-> "203.0.113.9", Country |-> "DE", Region |-> "",
       City |-> "", latlong |-> <<>>] }

\* The origin of a push-queue delivery: the queue's own address, no geo headers.
QueueOrigin ==
    [RemoteAddr |-> "0.1.0.2", Country |-> "", Region |-> "", City |-> "",
     latlong |-> <<>>]

\* ------------------------------------------------------------------------
\* Ingest: pure helpers
\* ------------------------------------------------------------------------
\* fmt.Sscanf(header, "%f,%f", &t.Lat, &t.Lon): fields stay 0 when nothing scans.
ScanLat(h) == IF Len(h) >= 1 THEN h[1] ELSE 0
ScanLon(h) == IF Len(h) >= 2 THEN h[2] ELSE 0

\* TuneResults.compress: Data is replaced by its gzip stream.
compress(data) == [gz |-> data]

\* TuneResults{...} literal plus Sscanf plus compress, as built at ingest.
NewTuneResults(doc, o, clock) ==
    [ Data      |-> compress(doc),
      Timestamp |-> clock,
      Addr      |-> o.RemoteAddr,
      Country   |-> o.Country,
      Region    |-> o.Region,
      City      |-> o.City,
      Lat       |-> ScanLat(o.latlong),
      Lon       |-> ScanLon(o.latlong),
      UUID      |-> doc.uniqueId,
      Board     |-> doc.board,
      Tau       |-> doc.tau ]

\* gob.NewEncoder(&buf).Encode(&t): the field values in declaration order.
GobEncode(t) ==
    << t.Data, t.Timestamp, t.Addr, t.Country, t.Region, t.City,
       t.Lat, t.Lon, t.UUID, t.Board, t.Tau >>

\* A consumer that rebuilds the envelope from the delivery request.
AsyncTuneResultsReclocked(p, o, clock) ==
    [ Data |-> p[1], Timestamp |-> clock, Addr |-> o.RemoteAddr,
      Country |-> o.Country, Region |-> o.Region, City |-> o.City,
      Lat |-> ScanLat(o.latlong), Lon |-> ScanLon(o.latlong),
      UUID |-> p[9], Board |-> p[10], Tau |-> p[11] ]

\* gob.NewDecoder(r.Body).Decode(&t), followed by the entity the consumer puts.
\* o and clock are the delivery request's origin and time: the consumer does
\* not use them.
AsyncTuneResults(p, o, clock) ==
    [ Data |-> p[1], Timestamp |-> p[2], Addr |-> p[3], Country |-> p[4],
      Region |-> p[5], City |-> p[6], Lat |-> p[7], Lon |-> p[8],
      UUID |-> p[9], Board |-> p[10], Tau |-> p[11] ]

\* A handler that ignores the error of taskqueue.Add.
StoreTuneAnswerOptimistic(putOk, enqOk, key) ==
    IF putOk THEN [code |-> 201, loc |-> key] ELSE [code |-> 201, loc |-> 0]

\* A handler that sets the Location header on a deferred acceptance too.
StoreTuneAnswerLocAlways(putOk, enqOk, key) ==
    IF putOk THEN [code |-> 201, loc |-> key]
    ELSE IF enqOk THEN [code |-> 201, loc |-> key]
    ELSE [code |-> 500, loc |-> 0]

\* What handleStoreTune answers after the Put (and, on its failure, the Add).
\* loc = 0 stands for "no Location header".
StoreTuneAnswer(putOk, enqOk, key) ==
    IF putOk THEN [code |-> 201, loc |-> key]
    ELSE IF enqOk THEN [code |-> 201, loc |-> 0]
    ELSE [code |-> 500, loc |-> 0]

\* Whether gob decoding of a task payload succeeds (else the consumer answers
\* 500 before any Put).
GobDecodes(p) == Len(p) = 11

\* A handler that adds the task whatever the Put returned.
StoreTuneEnqueuesAlways(putOk) == TRUE

\* Whether handleStoreTune adds the task: only after a failed Put.
StoreTuneEnqueues(putOk) == ~putOk

\* ------------------------------------------------------------------------
\* Ingest: actions
\* ------------------------------------------------------------------------
\* handleStoreTune, one request. compOk, gobOk, putOk, enqOk are the outcomes
\* of t.compress, gob Encode, datastore.Put and taskqueue.Add.
StoreTune(doc, o, compOk, gobOk, putOk, enqOk) ==
    /\ Len(calls) < MaxSubs
    /\ LET sub == Len(calls) + 1
           t   == NewTuneResults(doc, o, now)
           key == Len(tuneStore) + 1
           early == IF ~doc.wellFormed THEN 400
                    ELSE IF ~compOk \/ ~gobOk THEN 500 ELSE 0
       IN IF early # 0
          THEN /\ calls' = Append(calls, [code |-> early, loc |-> 0,
                                          put |-> "none", enq |-> "none",
                                          rec |-> t])
               /\ UNCHANGED <<tuneStore, asyncstore, putFailed>>
          ELSE /\ tuneStore' = IF putOk
                               THEN Append(tuneStore, [sub |-> sub, rec |-> t])
                               ELSE tuneStore
               /\ putFailed' = (putFailed \/ ~putOk)
               /\ asyncstore' = IF StoreTuneEnqueues(putOk) /\ enqOk
                                THEN Append(asyncstore,
                                            [sub |-> sub, Payload |-> GobEncode(t)])
                                ELSE asyncstore
               /\ calls' = Append(calls,
                     [code |-> StoreTuneAnswer(putOk, enqOk, key).code,
                      loc  |-> StoreTuneAnswer(putOk, enqOk, key).loc,
                      put  |-> IF putOk THEN "ok" ELSE "err",
                      enq  |-> IF putOk THEN "none"
                               ELSE IF enqOk THEN "ok" ELSE "err",
                      rec  |-> t])
    /\ now' = now + 1
    /\ UNCHANGED <<rollupVars, dispatchVars, rewriteVars, concVars>>

\* Removal of the i-th task of a queue.
RemoveAt(q, i) == [j \in 1..(Len(q) - 1) |-> IF j < i THEN q[j] ELSE q[j + 1]]

\* The deliveries made so far: every request that is not a submission.
Deliveries == now - 1 - Len(calls)

\* handleAsyncStoreTune, one delivery of the i-th pending task. The queue
\* deletes the task when it sees the 2xx answer (acked); a lost acknowledgement
\* leaves it pending, as does a 500.
AsyncStoreTune(i, putOk, acked) ==
    /\ i \in 1..Len(asyncstore)
    /\ Deliveries < MaxDeliveries
    /\ LET task == asyncstore[i]
           t    == AsyncTuneResults(task.Payload, QueueOrigin, now)
           ok   == GobDecodes(task.Payload) /\ putOk
       IN /\ tuneStore' = IF ok
                          THEN Append(tuneStore, [sub |-> task.sub, rec |-> t])
                          ELSE tuneStore
          /\ putFailed' = (putFailed \/ (GobDecodes(task.Payload) /\ ~putOk))
          /\ asyncstore' = IF ok /\ acked
                           THEN RemoveAt(asyncstore, i) ELSE asyncstore
    /\ now' = now + 1
    /\ UNCHANGED calls
    /\ UNCHANGED <<rollupVars, dispatchVars, rewriteVars, concVars>>

\* ------------------------------------------------------------------------
\* Rollup: times
\* ------------------------------------------------------------------------
MaxTime == 3          \* report timestamps range over 0..MaxTime
ZeroTime == 0         \* the zero time.Time, the Timestamp of a fresh struct
oldest == 2           \* the sentinel of olderTime (year 1000)
Times == ZeroTime..MaxTime

\* A minimum that knows no sentinel.
olderTimePlain(a, b) == IF a < b THEN a ELSE b

Before(a, b) == a < b
After(a, b) == a > b

olderTime(a, b) ==
    IF Before(a, oldest) THEN b
    ELSE IF Before(b, oldest) THEN a
    ELSE IF Before(a, b) THEN a
    ELSE b

\* ------------------------------------------------------------------------
\* Rollup: inputs
\* ------------------------------------------------------------------------
\* fmt.Sprintf("%x", sha256.Sum256([]byte(s))): an injective stand-in.
Sha256Hex(s) == "sha256:" \o s

\* usageSeenBoard values a client may report: two sightings of the board with
\* the explicit UUID "uuid1", one board known by its CPU only, one with
\* neither.
BoardA ==
    [ID |-> 2307, CPU |-> "cpu9", UUID |-> "uuid1", FwHash |-> "fw1",
     GitHash |-> "git1", GitTag |-> "tag1", Name |-> "CopterControl",
     UavoHash |-> "uavo1"]
BoardB ==
    [ID |-> 517, CPU |-> "", UUID |-> "uuid1", FwHash |-> "fw2",
     GitHash |-> "git2", GitTag |-> "tag2", Name |-> "RevoMini",
     UavoHash |-> "uavo2"]
BoardC ==
    [ID |-> 1, CPU |-> "cpu1", UUID |-> "", FwHash |-> "fw3",
     GitHash |-> "git3", GitTag |-> "", Name |-> "Sparky2",
     UavoHash |-> "uavo3"]
BoardD ==
    [ID |-> 4, CPU |-> "", UUID |-> "", FwHash |-> "fw4",
     GitHash |-> "git4", GitTag |-> "", Name |-> "Quanton",
     UavoHash |-> "uavo4"]

\* The BoardsSeen lists of the reports.
BoardSeqs ==
    { <<>>, <<BoardA>>, <<BoardC>>, <<BoardA, BoardB>>, <<BoardB, BoardA>>,
      <<BoardA, BoardC>>, <<BoardD, BoardC>> }

\* The envelope, client facts and consent flag of a report.
Clients ==
    { [IP |-> "192.0.2.1", Country |-> "US", Region |-> "ca", City |-> "sf",
       Lat |-> 37, Lon |-> -122, CurrentOS |-> "Windows 10",
       CurrentArch |-> "x86_64", GCSVersion |-> "v1", ShareIP |-> "true"],
      [IP |-> "192.0.2.2", Country |-> "NZ", Region |-> "", City |-> "",
       Lat |-> 0, Lon |-> 0, CurrentOS |-> "macOS", CurrentArch |-> "arm64",
       GCSVersion |-> "v2", ShareIP |-> "false"],
      [IP |-> "192.0.2.2", Country |-> "NZ", Region |-> "", City |-> "",
       Lat |-> 0, Lon |-> 0, CurrentOS |-> "macOS", CurrentArch |-> "arm64",
       GCSVersion |-> "v2", ShareIP |-> ""] }

\* asyncUsageData with its RawData document decoded.
Report(cl, ts, bs, parses) ==
    [ IP |-> cl.IP, Country |-> cl.Country, Region |-> cl.Region,
      City |-> cl.City, Lat |-> cl.Lat, Lon |-> cl.Lon, Timestamp |-> ts,
      RawData |-> [ parses |-> parses, BoardsSeen |-> bs,
                    CurrentArch |-> cl.CurrentArch, CurrentOS |-> cl.CurrentOS,
                    GCSVersion |-> cl.GCSVersion, ShareIP |-> cl.ShareIP ] ]

\* ------------------------------------------------------------------------
\* Rollup: pure helpers
\* ------------------------------------------------------------------------
canonicalBoard(b) ==
    IF b = "CopterControl" THEN "CC3D"
    ELSE IF b \in {"Revolution", "RevoMini"} THEN "Revo"
    ELSE b

\* The zero FoundController: what items[uuid] and a failed Get leave behind.
ZeroFC ==
    [ UUID |-> "", HardwareRev |-> 0, Name |-> "", GitHash |-> "",
      GitTag |-> "", UAVOHash |-> "", GCSOS |-> "", GCSArch |-> "",
      GCSVersion |-> "", Addr |-> "", Country |-> "", Region |-> "",
      City |-> "", Lat |-> 0, Lon |-> 0, Timestamp |-> ZeroTime,
      Oldest |-> ZeroTime, Count |-> 0, Counted |-> FALSE ]

\* The identity of a sighting; "" when it has neither UUID nor CPU.
ResolveUUID(b) ==
    IF b.UUID # "" THEN b.UUID
    ELSE IF b.CPU = "" THEN ""
    ELSE Sha256Hex(b.CPU)

\* A map assignment that keeps the value a key already has.
MapPutFirst(m, k, v) ==
    [x \in DOMAIN m \cup {k} |-> IF x \in DOMAIN m THEN m[x] ELSE v]

\* m[k] = v, as a Go map assignment.
MapPut(m, k, v) ==
    [x \in DOMAIN m \cup {k} |-> IF x = k THEN v ELSE m[x]]

\* The first loop of asyncRollup: seenBoards after sightings i..Len(bs).
RECURSIVE SeenBoardsFrom(_, _, _)
SeenBoardsFrom(bs, i, m) ==
    IF i > Len(bs) THEN m
    ELSE LET b == bs[i]
             uuid == ResolveUUID(b)
         IN IF uuid = "" THEN SeenBoardsFrom(bs, i + 1, m)
            ELSE SeenBoardsFrom(bs, i + 1,
                     MapPut(m, uuid, [b EXCEPT !.Name = canonicalBoard(b.Name)]))

SeenBoards(bs) == SeenBoardsFrom(bs, 1, <<>>)

\* A candidate whose address skips the consent check.
ConsentAddrKept(d) == d.IP

\* The address a candidate carries after the consent check.
ConsentAddr(d) == IF d.RawData.ShareIP # "true" THEN "" ELSE d.IP

\* The body of the second loop for one seen board: fc is items[uuid].
Candidate(fc, uuid, b, d) ==
    LET set == IF After(d.Timestamp, fc.Timestamp)
               THEN [ fc EXCEPT
                        !.UUID = uuid,
                        !.HardwareRev = b.ID % 256,
                        !.Name = canonicalBoard(b.Name),
                        !.GitHash = b.GitHash,
                        !.GitTag = b.GitTag,
                        !.UAVOHash = b.UavoHash,
                        !.GCSOS = d.RawData.CurrentOS,
                        !.GCSArch = d.RawData.CurrentArch,
                        !.GCSVersion = d.RawData.GCSVersion,
                        !.Addr = ConsentAddr(d),
                        !.Country = d.Country,
                        !.Region = d.Region,
                        !.City = d.City,
                        !.Lat = d.Lat,
                        !.Lon = d.Lon,
                        !.Timestamp = d.Timestamp,
                        !.Oldest = d.Timestamp ]
               ELSE fc
    IN [ set EXCEPT !.Oldest = olderTime(d.Timestamp, set.Oldest),
                    !.Count = set.Count + 1 ]

\* items after the second loop. seenBoards has one entry per uuid, so every
\* items[uuid] read at line 271 yields the zero value.
Items(d) ==
    LET seen == SeenBoards(d.RawData.BoardsSeen)
    IN [uuid \in DOMAIN seen |-> Candidate(ZeroFC, uuid, seen[uuid], d)]

\* datastore.Get into a fresh FoundController.
GetPrev(st, k) == IF k \in DOMAIN st THEN st[k] ELSE ZeroFC

\* The third loop for one item: v merged with the stored entity prev.
MergePrev(v, prev) ==
    [ v EXCEPT
        !.Oldest = olderTime(olderTime(prev.Oldest, v.Oldest), prev.Timestamp),
        !.Counted = v.Counted \/ prev.Counted ]

ToUpdate(st, d) ==
    LET items == Items(d)
    IN [k \in DOMAIN items |-> MergePrev(items[k], GetPrev(st, k))]

\* One key of a non-empty batch.
SomeKey(upd) == CHOOSE k \in DOMAIN upd : TRUE

\* A PutMulti outside any transaction: a failure leaves one entity written.
PutMultiUnprotected(st, upd, ok) ==
    IF ok THEN [k \in DOMAIN st \cup DOMAIN upd |->
                    IF k \in DOMAIN upd THEN upd[k] ELSE st[k]]
    ELSE MapPut(st, SomeKey(upd), upd[SomeKey(upd)])

\* datastore.RunInTransaction around PutMulti: all entities or none.
PutMultiTx(st, upd, ok) ==
    IF ok THEN [k \in DOMAIN st \cup DOMAIN upd |->
                    IF k \in DOMAIN upd THEN upd[k] ELSE st[k]]
    ELSE st

\* ------------------------------------------------------------------------
\* Rollup: action
\* ------------------------------------------------------------------------
\* last describes the transaction of the latest asyncRollup call: op is
\* "none" before the first call, "empty" when the call had no key to write,
\* "committed" when its transaction committed and "failed" when the call
\* returned an error. ids are the keys of the call; ts and share are the
\* timestamp and consent flag of a committed report, and hadAddr tells that
\* one of its keys held a non-empty Addr before the commit.
NoCall == [op |-> "none", ts |-> ZeroTime, share |-> "", ids |-> {},
           hadAddr |-> FALSE]

\* handleAsyncRollup with asyncRollup, one delivery of report d. outcome is
\* what the datastore does: "ok", "getErr" (a datastore.Get fails with
\* something else than ErrNoSuchEntity) or "txErr" (the transaction fails).
Outcomes == {"ok", "getErr", "txErr"}

AsyncRollup(d, outcome) ==
    LET upd == ToUpdate(fcStore, d)
        err == \/ ~d.RawData.parses
               \/ (DOMAIN upd # {} /\ outcome # "ok")
    IN /\ fcStore' = IF ~d.RawData.parses \/ DOMAIN upd = {} \/ outcome = "getErr"
                     THEN fcStore
                     ELSE PutMultiTx(fcStore, upd, outcome = "ok")
       /\ last' = IF err
                  THEN [ NoCall EXCEPT !.op = "failed",
                           !.ids = IF d.RawData.parses THEN DOMAIN upd ELSE {} ]
                  ELSE IF DOMAIN upd = {}
                  THEN [ NoCall EXCEPT !.op = "empty" ]
                  ELSE [ op |-> "committed", ts |-> d.Timestamp,
                         share |-> d.RawData.ShareIP, ids |-> DOMAIN upd,
                         hadAddr |-> \E k \in DOMAIN upd \cap DOMAIN fcStore :
                                        fcStore[k].Addr # "" ]
       /\ UNCHANGED <<ingestVars, dispatchVars, rewriteVars, concVars>>

\* ------------------------------------------------------------------------
\* handleUpdateControllers: the batch dispatcher
\* ------------------------------------------------------------------------
BatchSize == 100       \* tasks per taskqueue.AddMulti call
MaxRecords == 250      \* the largest number of UsageStat records in a run

\* The UsageStat records of a run are 1..n in query order (newest first).
\* The numbers of records tried: around one batch, around two, and the most.
RecordCounts ==
    {0, 1, BatchSize - 1, BatchSize, BatchSize + 1, 2 * BatchSize, MaxRecords}

\* The records that fail to uncompress, to marshal or to gz.
BadSets == {{}, {1}, {BatchSize}, {1, BatchSize + 1}}

\* The task built for record r: its payload is the gz of the JSON of the
\* asyncUsageData made from that record alone, so the record names the task.
RollupTask(r) == r

NoRequest == [pc |-> "idle", n |-> 0, bad |-> {}, pos |-> 0, tasks |-> <<>>,
              resp |-> 0]

\* if tasks != nil after the loop: tasks is nil before the first append and
\* after each batch of BatchSize, and an appended slice is never empty.
FinalBatchAlways(tasks) == TRUE

FinalBatchDue(tasks) == tasks # <<>>

\* grp.Go(func() error { AddMulti(c, todo, "asyncRollup") })
Go(bs, todo) == Append(bs, [tasks |-> todo, st |-> "running"])

\* What grp.Wait() gives the handler once every goroutine has returned.
WaitAnswerIgnored(bs) == 204

WaitAnswer(bs) ==
    IF \E b \in 1..Len(bs) : bs[b].st = "err" THEN 500 ELSE 204

\* The request arrives: q.Run(c) over n records of which those in bad do
\* not decode.
UpdateControllersStart(n, bad) ==
    /\ uc.pc = "idle"
    /\ uc' = [NoRequest EXCEPT !.pc = "loop", !.n = n, !.bad = bad]
    /\ UNCHANGED <<batches, rollupQ>>
    /\ UNCHANGED <<ingestVars, rollupVars, rewriteVars, concVars>>

\* One iteration of the loop for a record that t.Next returned.
UpdateControllersNext ==
    /\ uc.pc = "loop"
    /\ uc.pos < uc.n
    /\ LET r == uc.pos + 1
           decodes == r \notin uc.bad
           tasks1 == IF decodes THEN Append(uc.tasks, RollupTask(r))
                     ELSE uc.tasks
           full == decodes /\ Len(tasks1) = BatchSize
       IN /\ uc' = [uc EXCEPT !.pos = r,
                              !.tasks = IF full THEN <<>> ELSE tasks1]
          /\ batches' = IF full THEN Go(batches, tasks1) ELSE batches
    /\ UNCHANGED rollupQ
    /\ UNCHANGED <<ingestVars, rollupVars, rewriteVars, concVars>>

\* t.Next fails with something else than datastore.Done: panic(err). The
\* handler is left without grp.Wait(); the goroutines it started go on.
UpdateControllersReadFails ==
    /\ uc.pc = "loop"
    /\ uc' = [uc EXCEPT !.pc = "panicked"]
    /\ UNCHANGED <<batches, rollupQ>>
    /\ UNCHANGED <<ingestVars, rollupVars, rewriteVars, concVars>>

\* t.Next returns datastore.Done: the rest is started as the last batch and
\* the handler enters grp.Wait().
UpdateControllersDone ==
    /\ uc.pc = "loop"
    /\ uc.pos = uc.n
    /\ uc' = [uc EXCEPT !.pc = "wait"]
    /\ batches' = IF FinalBatchDue(uc.tasks) THEN Go(batches, uc.tasks)
                  ELSE batches
    /\ UNCHANGED rollupQ
    /\ UNCHANGED <<ingestVars, rollupVars, rewriteVars, concVars>>

\* The goroutine of batch b returns from taskqueue.AddMulti.
AddMultiReturns(b, ok) ==
    /\ b \in 1..Len(batches)
    /\ batches[b].st = "running"
    /\ batches' = [batches EXCEPT ![b].st = IF ok THEN "ok" ELSE "err"]
    /\ rollupQ' = IF ok
                  THEN rollupQ \cup {batches[b].tasks[j] :
                                        j \in 1..Len(batches[b].tasks)}
                  ELSE rollupQ
    /\ UNCHANGED uc
    /\ UNCHANGED <<ingestVars, rollupVars, rewriteVars, concVars>>

\* grp.Wait() returns when every goroutine has returned; the handler answers.
UpdateControllersAnswer ==
    /\ uc.pc = "wait"
    /\ \A b \in 1..Len(batches) : batches[b].st # "running"
    /\ uc' = [uc EXCEPT !.pc = "done", !.resp = WaitAnswer(batches)]
    /\ UNCHANGED <<batches, rollupQ>>
    /\ UNCHANGED <<ingestVars, rollupVars, rewriteVars, concVars>>

\* ------------------------------------------------------------------------
\* handleRewriteUUIDs: the identity migration of TuneResults
\* ------------------------------------------------------------------------
RewriteLimit == 50     \* Limit(50) of the query
MaxLegacy == 52        \* the largest TuneResults store a migration starts on
MaxRuns == 3           \* handleRewriteUUIDs requests in one run

\* Identities as devices reported them before the migration.
LegacyUUIDs == {"dev1", "dev2"}

\* The values fmt.Sprintf("%x", sha256.Sum256(...)) can take here: the
\* digests of the legacy identities and the digests of those digests.
Digests ==
    {Sha256Hex(u) : u \in LegacyUUIDs}
        \cup {Sha256Hex(Sha256Hex(u)) : u \in LegacyUUIDs}

\* len(x.UUID) == 64: the hex form of a sha256 digest has 64 characters,
\* the legacy identities are shorter.
IsNewStyle(uuid) == uuid \in Digests

\* TuneResults.uncompress: the inverse of compress; it fails on Data that
\* is not a gzip stream.
uncompress(data) ==
    IF "gz" \in DOMAIN data THEN [ok |-> TRUE, data |-> data.gz]
    ELSE [ok |-> FALSE, data |-> data]

\* The kinds of record a store holds when a migration starts: a legacy
\* record, a migrated one, one whose document is not JSON and one whose Data
\* does not uncompress. Record k was stored at time k.
LegacyRecord(kind, k) ==
    LET uuid == IF k % 2 = 0 THEN "dev1" ELSE "dev2"
        id == IF kind = "migrated" THEN Sha256Hex(uuid) ELSE uuid
        doc == [wellFormed |-> kind # "nojson", uniqueId |-> id,
                board |-> "Sparky2", tau |-> 12]
        o == CHOOSE x \in Origins : x.latlong = <<>>
        t == NewTuneResults(doc, o, k)
    IN IF kind = "nogzip" THEN [t EXCEPT !.Data = [raw |-> doc]] ELSE t

Kinds == <<"legacy", "migrated", "nojson", "nogzip">>

\* How the kinds are laid out in a store: all legacy, all migrated, the four
\* kinds in turn, or migrated but for the oldest record.
Patterns ==
    { [k \in 1..MaxLegacy |-> "legacy"],
      [k \in 1..MaxLegacy |-> "migrated"],
      [k \in 1..MaxLegacy |-> Kinds[(k % 4) + 1]],
      [k \in 1..MaxLegacy |-> IF k = 1 THEN "legacy" ELSE "migrated"] }

LegacyStore(n, p) == [k \in 1..n |-> [sub |-> 0, rec |-> LegacyRecord(p[k], k)]]

LegacyStores ==
    {LegacyStore(n, p) : n \in {1, 3, RewriteLimit, MaxLegacy}, p \in Patterns}

\* A query without a limit: the keys of all records.
NewestUnlimited(st) == 1..Len(st)

\* Order("-timestamp").Limit(50): the keys of the 50 newest records.
Newest(st) ==
    {k \in 1..Len(st) :
        Cardinality({j \in 1..Len(st) :
                        st[j].rec.Timestamp > st[k].rec.Timestamp})
            < RewriteLimit}

\* A migration that rewrites every record it is given.
NeedsRewriteAlways(x) == TRUE

\* if len(x.UUID) == 64 { continue }
NeedsRewrite(x) == ~IsNewStyle(x.UUID)

\* The loop body for one record x: put tells whether x joins toUpdate and
\* rec is x as it would be written.
RewriteOne(x) ==
    LET u == uncompress(x.Data)
        uuid == Sha256Hex(x.UUID)
    IN IF ~NeedsRewrite(x) \/ ~u.ok \/ ~u.data.wellFormed
       THEN [put |-> FALSE, rec |-> x]
       ELSE [put |-> TRUE,
             rec |-> [x EXCEPT !.UUID = uuid,
                               !.Data = compress([u.data EXCEPT
                                                    !.uniqueId = uuid])]]

\* One request: queryOk tells whether the query succeeded and txOk whether
\* the transaction around PutMulti did.
RewriteUUIDs(queryOk, txOk) ==
    /\ Len(rw) < MaxRuns
    /\ LET keys == {k \in Newest(tuneStore) : RewriteOne(tuneStore[k].rec).put}
           code == IF ~queryOk \/ (keys # {} /\ ~txOk) THEN 500 ELSE 204
       IN /\ tuneStore' =
                IF code = 204
                THEN [k \in 1..Len(tuneStore) |->
                        IF k \in keys
                        THEN [tuneStore[k] EXCEPT
                                !.rec = RewriteOne(tuneStore[k].rec).rec]
                        ELSE tuneStore[k]]
                ELSE tuneStore
          /\ rw' = Append(rw, code)
    /\ UNCHANGED <<now, asyncstore, calls, putFailed>>
    /\ UNCHANGED <<rollupVars, dispatchVars, concVars>>

\* ------------------------------------------------------------------------
\* asyncRollup calls running at the same time
\* ------------------------------------------------------------------------
MaxProcs == 2          \* asyncRollup calls in one run

\* The reports of the concurrent calls: one client, every timestamp, one or
\* two boards, the board with CPU cpu1 in all of them.
ConcReports ==
    {Report(CHOOSE cl \in Clients : cl.ShareIP = "true", ts, bs, TRUE) :
        ts \in Times, bs \in {<<BoardC>>, <<BoardA, BoardC>>}}

\* A delivery of report d starts a call: the first two loops build items
\* from d alone.
RollupStart(d) ==
    /\ Len(procs) < MaxProcs
    /\ procs' = Append(procs, [pc |-> "get", d |-> d, upd |-> <<>>])
    /\ UNCHANGED <<ingestVars, rollupVars, dispatchVars, rewriteVars>>

\* The third loop of call p: datastore.Get(c, key, prev) for every item, on
\* the request context c and so outside any transaction, then the merge of
\* prev into the item. getOk tells whether every Get succeeded.
RollupGet(p, getOk) ==
    /\ p \in 1..Len(procs)
    /\ procs[p].pc = "get"
    /\ LET upd == ToUpdate(fcStore, procs[p].d)
       IN procs' = [procs EXCEPT
                      ![p].upd = IF getOk THEN upd ELSE <<>>,
                      ![p].pc = IF DOMAIN upd # {} /\ ~getOk THEN "failed"
                                ELSE "put"]
    /\ UNCHANGED <<ingestVars, rollupVars, dispatchVars, rewriteVars>>

\* The transaction of call p: PutMulti of what the third loop computed.
RollupCommit(p, txOk) ==
    /\ p \in 1..Len(procs)
    /\ procs[p].pc = "put"
    /\ fcStore' = PutMultiTx(fcStore, procs[p].upd, txOk)
    /\ procs' = [procs EXCEPT ![p].pc = IF txOk THEN "done" ELSE "failed"]
    /\ UNCHANGED last
    /\ UNCHANGED <<ingestVars, dispatchVars, rewriteVars>>

\* The downstream consumer of the Counted flag takes the record id into
\* account: it sets Counted on the stored entity, in one write.
MarkCounted(id) ==
    /\ id \in DOMAIN fcStore
    /\ ~fcStore[id].Counted
    /\ fcStore' = [fcStore EXCEPT ![id].Counted = TRUE]
    /\ UNCHANGED last
    /\ UNCHANGED <<ingestVars, dispatchVars, rewriteVars, concVars>>

DispatchInit ==
    /\ uc = NoRequest
    /\ batches = <<>>
    /\ rollupQ = {}

IngestInit ==
    /\ now = 1
    /\ tuneStore = <<>>
    /\ asyncstore = <<>>
    /\ calls = <<>>
    /\ putFailed = FALSE

RollupInit ==
    /\ fcStore = <<>>
    /\ last = NoCall

RewriteInit == rw = <<>>

ConcInit == procs = <<>>

vars == <<now, tuneStore, asyncstore, calls, putFailed, fcStore, last,
          uc, batches, rollupQ, rw, procs>>

Init == IngestInit /\ RollupInit /\ DispatchInit /\ RewriteInit /\ ConcInit

DoStoreTune ==
    \E doc \in Docs, o \in Origins, compOk \in BOOLEAN, gobOk \in BOOLEAN,
       putOk \in BOOLEAN, enqOk \in BOOLEAN :
        StoreTune(doc, o, compOk, gobOk, putOk, enqOk)

DoAsyncStoreTune ==
    \E i \in 1..Len(asyncstore), putOk \in BOOLEAN, acked \in BOOLEAN :
        AsyncStoreTune(i, putOk, acked)

NextIngest == DoStoreTune \/ DoAsyncStoreTune

SpecIngest == Init /\ [][NextIngest]_vars

DoAsyncRollup ==
    \E cl \in Clients, ts \in Times, bs \in BoardSeqs, outcome \in Outcomes :
        AsyncRollup(Report(cl, ts, bs, TRUE), outcome)

\* A delivery whose RawData does not unmarshal.
DoAsyncRollupBadJSON ==
    \E cl \in Clients :
        AsyncRollup(Report(cl, ZeroTime, <<>>, FALSE), "ok")

NextRollup == DoAsyncRollup \/ DoAsyncRollupBadJSON

SpecRollup == Init /\ [][NextRollup]_vars

DoUpdateControllersStart ==
    \E n \in RecordCounts, bad \in BadSets : UpdateControllersStart(n, bad)

DoAddMultiReturns ==
    \E b \in 1..Len(batches), ok \in BOOLEAN : AddMultiReturns(b, ok)

NextDispatch ==
    \/ DoUpdateControllersStart
    \/ UpdateControllersNext
    \/ UpdateControllersReadFails
    \/ UpdateControllersDone
    \/ DoAddMultiReturns
    \/ UpdateControllersAnswer

SpecDispatch == Init /\ [][NextDispatch]_vars

\* A migration starts on a store of records ingested earlier.
InitRewrite ==
    /\ tuneStore \in LegacyStores
    /\ now = Len(tuneStore) + 1
    /\ asyncstore = <<>>
    /\ calls = <<>>
    /\ putFailed = FALSE
    /\ RollupInit /\ DispatchInit /\ RewriteInit /\ ConcInit

DoRewriteUUIDs ==
    \E queryOk \in BOOLEAN, txOk \in BOOLEAN : RewriteUUIDs(queryOk, txOk)

NextRewrite == DoRewriteUUIDs

SpecRewrite == InitRewrite /\ [][NextRewrite]_vars

DoRollupStart == \E d \in ConcReports : RollupStart(d)

DoRollupGet == \E p \in 1..Len(procs), getOk \in BOOLEAN : RollupGet(p, getOk)

DoRollupCommit ==
    \E p \in 1..Len(procs), txOk \in BOOLEAN : RollupCommit(p, txOk)

NextConc == DoRollupStart \/ DoRollupGet \/ DoRollupCommit

SpecConc == Init /\ [][NextConc]_vars

DoMarkCounted == \E id \in DOMAIN fcStore : MarkCounted(id)

\* asyncRollup calls next to the consumer of the Counted flag.
NextCounted == NextConc \/ DoMarkCounted

SpecCounted == Init /\ [][NextCounted]_vars

Next ==
    \/ NextIngest \/ NextRollup \/ NextDispatch \/ NextRewrite \/ NextConc
    \/ DoMarkCounted

Spec == Init /\ [][Next]_vars

\* The environment of the fallback scenario: the first Put fails and every
\* later Put succeeds (the store fails exactly once), enqueues succeed, and
\* the queue redelivers a task until its consumer answers success and then
\* deletes it.
FallbackStoreTune ==
    \E doc \in Docs, o \in Origins :
        StoreTune(doc, o, TRUE, TRUE, putFailed, TRUE)

FallbackAsyncStoreTune ==
    \E i \in 1..Len(asyncstore) : AsyncStoreTune(i, putFailed, TRUE)

NextFallback == FallbackStoreTune \/ FallbackAsyncStoreTune

SpecFallback ==
    Init /\ [][NextFallback]_vars /\ WF_vars(FallbackAsyncStoreTune)

\* ------------------------------------------------------------------------
\* Ingest: properties
\* ------------------------------------------------------------------------
Subs == 1..Len(calls)
InStore(s) == \E k \in 1..Len(tuneStore) : tuneStore[k].sub = s
OnQueue(s) == \E i \in 1..Len(asyncstore) : asyncstore[i].sub = s
CountInStore(s) == Cardinality({k \in 1..Len(tuneStore) : tuneStore[k].sub = s})

\* C1: a submission answered 201 has its record in the primary store or
\* pending on the 'asyncstore' queue, in every reachable state.
AcceptedNeverLost ==
    \A s \in Subs : calls[s].code = 201 => InStore(s) \/ OnQueue(s)

\* C1 witness: a deferred acceptance whose record is only on the queue.
AcceptedNeverLostWitness ==
    \E s \in Subs :
        /\ calls[s].code = 201 /\ calls[s].put = "err"
        /\ OnQueue(s) /\ ~InStore(s)

\* C2: when the store fails exactly once (the synchronous write) and the
\* queue redelivers until the consumer succeeds, the record of the failed
\* submission is eventually in the primary store, and no submission's
\* record is ever there twice.
FallbackExactlyOnce ==
    /\ [](\A s \in Subs : CountInStore(s) <= 1)
    /\ \A s \in 1..(MaxSubs + 1) :
          (s \in Subs /\ calls[s].put = "err") ~> (CountInStore(s) = 1)

\* C2 witness: the submission whose synchronous write failed is in the store
\* once, written by the consumer, and the queue is drained.
FallbackExactlyOnceWitness ==
    \E s \in Subs :
        /\ calls[s].put = "err" /\ calls[s].code = 201
        /\ CountInStore(s) = 1 /\ asyncstore = <<>>

\* C9: when Put and Add both fail the answer is a 5xx and the record is in
\* neither place; a 201 without locator is given only after a successful
\* Add; a locator is given only after a successful Put and names the entity
\* that holds the record.
HardFailureReported ==
    \A s \in Subs :
        /\ (calls[s].put = "err" /\ calls[s].enq = "err")
              => (calls[s].code >= 500 /\ ~InStore(s) /\ ~OnQueue(s))
        /\ (calls[s].code = 201 /\ calls[s].loc = 0) => calls[s].enq = "ok"
        /\ calls[s].loc # 0
              => /\ calls[s].put = "ok"
                 /\ calls[s].loc \in 1..Len(tuneStore)
                 /\ tuneStore[calls[s].loc].sub = s

\* C9 witness: a request whose Put and Add both failed, answered 500.
HardFailureReportedWitness ==
    \E s \in Subs :
        calls[s].put = "err" /\ calls[s].enq = "err" /\ calls[s].code = 500

\* C10: every entity in the primary store equals the record built at ingest
\* of its submission, whether the handler or the queue consumer wrote it.
ConsumerWritesIngestRecord ==
    \A k \in 1..Len(tuneStore) :
        tuneStore[k].rec = calls[tuneStore[k].sub].rec

\* C10 witness: an entity written by the consumer at a later clock reading
\* than the one captured at ingest.
ConsumerWritesIngestRecordWitness ==
    \E k \in 1..Len(tuneStore) :
        /\ calls[tuneStore[k].sub].put = "err"
        /\ now > tuneStore[k].rec.Timestamp

\* ------------------------------------------------------------------------
\* Rollup: properties
\* ------------------------------------------------------------------------
\* The current-state fields of a FoundController.
CurrentState(fc) ==
    << fc.Name, fc.HardwareRev, fc.GitHash, fc.GitTag, fc.UAVOHash, fc.GCSOS,
       fc.GCSArch, fc.GCSVersion, fc.Country, fc.Region, fc.City, fc.Lat,
       fc.Lon, fc.Addr, fc.Timestamp >>

\* C3: merging a report with timestamp T1 over a record left by a report
\* with timestamp T2 > T1 keeps the record's current-state fields and sets
\* Oldest to T1 (T1 a valid time, at or after the olderTime sentinel).
OutOfOrderKeepsCurrent ==
    [][ \A id \in last'.ids :
          ( /\ last'.op = "committed"
            /\ id \in DOMAIN fcStore
            /\ fcStore[id].Oldest = fcStore[id].Timestamp
            /\ ~Before(last'.ts, oldest)
            /\ Before(last'.ts, fcStore[id].Timestamp) )
          => ( /\ CurrentState(fcStore'[id]) = CurrentState(fcStore[id])
               /\ fcStore'[id].Oldest = last'.ts ) ]_vars

\* C4: a committed merge stores Count = 1 for an identity without prior
\* record and prior Count + 1 otherwise.
CountAccumulates ==
    [][ \A id \in last'.ids :
          last'.op = "committed"
          => fcStore'[id].Count =
               IF id \in DOMAIN fcStore THEN fcStore[id].Count + 1 ELSE 1 ]_vars

\* C5: no merge moves the stored Oldest of an identity to a later time.
OldestNeverLater ==
    [][ \A id \in DOMAIN fcStore :
          /\ id \in DOMAIN fcStore'
          /\ fcStore'[id].Oldest <= fcStore[id].Oldest ]_vars

\* C6: every stored FoundController has Oldest <= Timestamp.
OldestNotAfterTimestamp ==
    \A id \in DOMAIN fcStore : fcStore[id].Oldest <= fcStore[id].Timestamp

\* C7: after a committed merge of a report whose ShareIP is not "true",
\* the stored Addr of every identity of the report is empty.
ConsentRule ==
    (last.op = "committed" /\ last.share # "true")
    => \A id \in last.ids : id \in DOMAIN fcStore /\ fcStore[id].Addr = ""

\* C7 witness: such a merge over a record that had a non-empty Addr, with a
\* timestamp that makes the merge set the current-state fields.
ConsentRuleWitness ==
    /\ last.op = "committed" /\ last.share # "true" /\ last.hadAddr
    /\ After(last.ts, ZeroTime)
    /\ \E id \in last.ids : fcStore[id].Addr = "" /\ fcStore[id].Country # ""

\* C8: a call that returns an error changes no FoundController, and a call
\* that commits has written every identity of its report.
MergeAllOrNothing ==
    [][ /\ last'.op = "failed" => fcStore' = fcStore
        /\ last'.op = "committed"
             => \A id \in last'.ids :
                   /\ id \in DOMAIN fcStore'
                   /\ fcStore'[id] =
                        [ fcStore'[id] EXCEPT
                            !.Timestamp = last'.ts,
                            !.Count = 1 ] ]_vars

\* C8 witness: a failed call for a report with two identities, one with a
\* stored record and one without.
MergeAllOrNothingWitness ==
    /\ last.op = "failed"
    /\ Cardinality(last.ids) = 2
    /\ last.ids \cap DOMAIN fcStore # {}
    /\ last.ids \ DOMAIN fcStore # {}

\* The store after a committed asyncRollup of report d on store st.
Merged(st, d) == PutMultiTx(st, ToUpdate(st, d), TRUE)

\* The reports a delivery can carry.
Reports ==
    {Report(cl, ts, bs, TRUE) : cl \in Clients, ts \in Times, bs \in BoardSeqs}

\* C13: from any store, merging a report twice leaves every identity of the
\* report with the same current-state fields, Timestamp and Oldest as
\* merging it once.
MergeTwiceAsOnce ==
    \A d \in Reports :
        LET once == Merged(fcStore, d)
            twice == Merged(once, d)
        IN \A id \in DOMAIN Items(d) :
              /\ CurrentState(twice[id]) = CurrentState(once[id])
              /\ twice[id].Oldest = once[id].Oldest

\* ------------------------------------------------------------------------
\* The batch dispatcher (handleUpdateControllers)
\* ------------------------------------------------------------------------
\* The records of the run that decode, in query order.
Decodable == SelectSeq([i \in 1..uc.n |-> i], LAMBDA r : r \notin uc.bad)

Ceil(a, b) == (a + b - 1) \div b

\* The enqueues started and not yet completed.
Outstanding == Cardinality({b \in 1..Len(batches) : batches[b].st = "running"})

\* C11: once the records are read, the m records that decode are in exactly
\* ceil(m / 100) batches, in order: every batch but the last has exactly 100
\* tasks, the last has between 1 and 100, and each decodable record is in
\* exactly one batch; no batch is ever empty or larger than 100; a record
\* that does not decode is in no batch and the records after it are batched.
BatchesPartition ==
    /\ \A b \in 1..Len(batches) :
          Len(batches[b].tasks) \in 1..BatchSize
    /\ uc.pc \in {"wait", "done"} =>
          LET g == Decodable
              k == Len(batches)
          IN /\ k = Ceil(Len(g), BatchSize)
             /\ \A b \in 1..k :
                   /\ b < k => Len(batches[b].tasks) = BatchSize
                   /\ b = k => Len(batches[b].tasks) = Len(g) - (k - 1) * BatchSize
                   /\ \A j \in 1..Len(batches[b].tasks) :
                         batches[b].tasks[j] = RollupTask(g[(b - 1) * BatchSize + j])

\* 250 records that all decode have been read: three batches of 100, 100, 50.
BatchesPartitionWitness ==
    /\ uc.pc = "wait"
    /\ uc.n = MaxRecords
    /\ uc.bad = {}
    /\ Len(batches) = 3
    /\ Len(batches[1].tasks) = BatchSize
    /\ Len(batches[2].tasks) = BatchSize
    /\ Len(batches[3].tasks) = MaxRecords - 2 * BatchSize

HandlerJoinsAll ==
    uc.pc \in {"done", "panicked"} => Outstanding = 0

\* C19: the number of enqueues started and not completed stays within a
\* limit that does not grow with the number of records. The code starts one
\* goroutine per batch, so whatever the limit L a run of (L + 1) * 100
\* records exceeds it; the runs modelled reach three batches, which refutes
\* every limit below three.
BoundedFanOut ==
    Outstanding < Ceil(MaxRecords, BatchSize)

\* ------------------------------------------------------------------------
\* The identity migration (handleRewriteUUIDs)
\* ------------------------------------------------------------------------
\* C14: a migration run leaves every record whose identity already has 64
\* characters as it is, identity and document, and a run that follows a
\* successful run leaves the whole store as it is: two runs give what one
\* run gives.
RewriteIdempotent ==
    [][ /\ \A k \in 1..Len(tuneStore) :
              IsNewStyle(tuneStore[k].rec.UUID)
              => /\ k \in 1..Len(tuneStore')
                 /\ tuneStore'[k] = tuneStore[k]
        /\ (rw # <<>> /\ rw[Len(rw)] = 204) => tuneStore' = tuneStore ]_vars

\* Two successful runs on a store that held the four kinds of record: the
\* first migrated the legacy record stored at time 4 and left the one that
\* does not uncompress.
RewriteIdempotentWitness ==
    /\ Len(rw) >= 2
    /\ rw[1] = 204
    /\ rw[2] = 204
    /\ Len(tuneStore) >= 4
    /\ ~IsNewStyle(tuneStore[3].rec.UUID)
    /\ tuneStore[4].rec.UUID = Sha256Hex("dev1")
    /\ tuneStore[4].rec.Data = compress(
            [wellFormed |-> TRUE, uniqueId |-> Sha256Hex("dev1"),
             board |-> "Sparky2", tau |-> 12])

\* ------------------------------------------------------------------------
\* Concurrent asyncRollup calls
\* ------------------------------------------------------------------------
\* The store after the reports ds were merged one after the other.
RECURSIVE MergedAll(_, _)
MergedAll(st, ds) ==
    IF ds = <<>> THEN st ELSE MergedAll(Merged(st, Head(ds)), Tail(ds))

\* The orders in which n calls can run one after the other.
Orders(n) == {f \in [1..n -> 1..n] : \A i, j \in 1..n : f[i] = f[j] => i = j}

\* C15: when the concurrent asyncRollup calls have all committed, the store
\* is what running them one after the other in some order gives (so for one
\* identity Oldest is the earliest of the prior Oldest and the calls'
\* timestamps): no call's update is lost.
RollupsSerializable ==
    (procs # <<>> /\ \A p \in 1..Len(procs) : procs[p].pc = "done")
    => \E f \in Orders(Len(procs)) :
          fcStore = MergedAll(<<>>, [i \in 1..Len(procs) |-> procs[f[i]].d])

\* ------------------------------------------------------------------------
\* The Oldest rule
\* ------------------------------------------------------------------------
Earliest(S) == CHOOSE x \in S : \A y \in S : x <= y

PriorOldest(id) == IF id \in DOMAIN fcStore THEN fcStore[id].Oldest ELSE ZeroTime

PriorTimestamp(id) ==
    IF id \in DOMAIN fcStore THEN fcStore[id].Timestamp ELSE ZeroTime

Identities(bs) == {ResolveUUID(bs[i]) : i \in 1..Len(bs)} \ {""}

\* The last sighting of bs that resolves to id.
LastSighting(bs, id) ==
    bs[CHOOSE i \in 1..Len(bs) :
          /\ ResolveUUID(bs[i]) = id
          /\ \A j \in (i + 1)..Len(bs) : ResolveUUID(bs[j]) # id]

\* The reports of one client with every timestamp and list of sightings.
SightingReports ==
    {Report(CHOOSE cl \in Clients : cl.ShareIP = "true", ts, bs, TRUE) :
        ts \in Times, bs \in BoardSeqs}

\* C17: for every report and store, the identity of a sighting is its UUID
\* when non-empty and else the hash of its CPU; the sightings of the report
\* collapse to one candidate per identity, which carries the values of the
\* last sighting with that identity; the merge writes exactly one record per
\* identity, with those values when the report's timestamp is after the
\* zero time, and counts it once; a sighting with neither UUID nor CPU
\* yields no candidate and no record, the other sightings are merged, and
\* no other record changes.
DedupWithinReport ==
    \A d \in SightingReports :
        LET bs == d.RawData.BoardsSeen
            ids == Identities(bs)
            seen == SeenBoards(bs)
            upd == ToUpdate(fcStore, d)
            after == Merged(fcStore, d)
        IN /\ \A i \in 1..Len(bs) :
                 ResolveUUID(bs[i]) =
                    IF bs[i].UUID # "" THEN bs[i].UUID
                    ELSE IF bs[i].CPU # "" THEN Sha256Hex(bs[i].CPU)
                    ELSE ""
           /\ DOMAIN seen = ids
           /\ DOMAIN upd = ids
           /\ DOMAIN after = DOMAIN fcStore \cup ids
           /\ \A k \in DOMAIN fcStore \ ids : after[k] = fcStore[k]
           /\ \A id \in ids :
                 LET b == LastSighting(bs, id)
                 IN /\ seen[id] = [b EXCEPT !.Name = canonicalBoard(b.Name)]
                    /\ after[id].Count = 1
                    /\ After(d.Timestamp, ZeroTime)
                       => /\ after[id].UUID = id
                          /\ after[id].Name = canonicalBoard(b.Name)
                          /\ after[id].HardwareRev = b.ID % 256
                          /\ after[id].GitHash = b.GitHash
                          /\ after[id].GitTag = b.GitTag
                          /\ after[id].UAVOHash = b.UavoHash

\* A committed merge left the identity uuid1 with the values of BoardB,
\* which is only ever reported after BoardA in one report.
DedupWithinReportWitness ==
    /\ last.op = "committed"
    /\ last.ids = {BoardB.UUID}
    /\ fcStore[BoardB.UUID].Name = canonicalBoard(BoardB.Name)
    /\ fcStore[BoardB.UUID].GitHash = BoardB.GitHash
    /\ fcStore[BoardB.UUID].HardwareRev = BoardB.ID % 256

\* ------------------------------------------------------------------------
\* Redelivery of an 'asyncstore' task
\* ------------------------------------------------------------------------
\* C20: however often the queue delivers the task of a submission to
\* handleAsyncStoreTune, the primary store holds at most one record for that
\* submission.
RedeliveryStoresOnce ==
    \A s \in Subs : CountInStore(s) <= 1

\* ------------------------------------------------------------------------
\* The Counted flag
\* ------------------------------------------------------------------------
\* C21: a stored FoundController that has Counted = true is never stored
\* with Counted = false afterwards.
CountedSticky ==
    [][ \A id \in DOMAIN fcStore :
          fcStore[id].Counted
          => /\ id \in DOMAIN fcStore'
             /\ fcStore'[id].Counted ]_vars

\* ------------------------------------------------------------------------
\* Self-consistency of a written record
\* ------------------------------------------------------------------------
\* C22: every record a committed asyncRollup writes has its UUID field equal
\* to the identity it is stored under and its Timestamp equal to the
\* report's timestamp, whatever that timestamp is.
WrittenRecordConsistent ==
    [][ last'.op = "committed"
        => \A id \in last'.ids :
              /\ fcStore'[id].UUID = id
              /\ fcStore'[id].Timestamp = last'.ts ]_vars

\* ------------------------------------------------------------------------
\* Frame of the identity migration
\* ------------------------------------------------------------------------
\* Record k is among the 50 most recent: fewer than 50 records are newer.
AmongMostRecent(k) ==
    Cardinality({j \in 1..Len(tuneStore) :
                    tuneStore[j].rec.Timestamp > tuneStore[k].rec.Timestamp})
        < RewriteLimit

\* The records a run has to rewrite: among the 50 most recent, identity not
\* 64 characters long, and decodable.
DueForRewrite ==
    {k \in 1..Len(tuneStore) :
        /\ AmongMostRecent(k)
        /\ ~IsNewStyle(tuneStore[k].rec.UUID)
        /\ RewriteOne(tuneStore[k].rec).put}

\* C23: a run of handleRewriteUUIDs, the first or a later one, adds and
\* removes no record and leaves unchanged every record that is not among
\* the 50 most recent by timestamp or whose identity has 64 characters; the
\* records it changes are all the records it has to rewrite or none of them,
\* none when it answers 500.
RewriteFrame ==
    [][ /\ Len(tuneStore') = Len(tuneStore)
        /\ \A k \in 1..Len(tuneStore) :
              (~AmongMostRecent(k) \/ IsNewStyle(tuneStore[k].rec.UUID))
              => tuneStore'[k] = tuneStore[k]
        /\ LET changed == {k \in 1..Len(tuneStore) :
                              tuneStore'[k] # tuneStore[k]}
           IN /\ changed \in {{}, DueForRewrite}
              /\ rw'[Len(rw')] = 500 => changed = {}
              /\ rw'[Len(rw')] = 204 => changed = DueForRewrite ]_vars

\* A successful run on the largest all-legacy store: the newest record is
\* migrated and the two records beyond the 50 most recent are still legacy.
RewriteFrameWitness ==
    /\ rw # <<>>
    /\ rw[Len(rw)] = 204
    /\ Len(tuneStore) = MaxLegacy
    /\ IsNewStyle(tuneStore[MaxLegacy].rec.UUID)
    /\ tuneStore[MaxLegacy].rec.Data.gz.uniqueId = tuneStore[MaxLegacy].rec.UUID
    /\ \A k \in 1..(MaxLegacy - RewriteLimit) :
          /\ tuneStore[k].rec.UUID \in LegacyUUIDs
          /\ tuneStore[k].rec.Data = compress(
                [wellFormed |-> TRUE, uniqueId |-> tuneStore[k].rec.UUID,
                 board |-> "Sparky2", tau |-> 12])

====
